---- MODULE Spec2Model ----
(***************************************************************************)
(* Model of dsttime.py: US daylight-saving calculation (is_dst), the NTP   *)
(* client (get_ntp_time), the UTC-to-local conversion (utc_to_local) and   *)
(* the synchroniser (set_local_time) with its bounded retry loop.          *)
(*                                                                         *)
(* Time tuples are the MicroPython 8-tuples                                *)
(*   (year, month, mday, hour, minute, second, weekday, yearday)           *)
(* as sequences; Python index k is TLA+ index k+1.                         *)
(***************************************************************************)
EXTENDS Integers, Sequences, FiniteSets, TLC

\* ------------------------------------------------------------------ bounds
MinYear == 2000
MaxYear == 2028

\* --------------------------------------------------------- program constants
\* NTP_DELTA = 2208988800 = NTP_DELTA_HI * 65536 + NTP_DELTA_LO (16-bit words)
NTP_DELTA_HI == 33706
NTP_DELTA_LO == 32384
EPOCH_YEAR == 1970
MaxRetries == 10
NTP_TIMESTAMP_END == 44
NTP_TIMESTAMP_START == 40
RECV_SIZE == 48

TIMEZONES_extra ==
  [z \in {"US/Eastern", "US/Central", "US/Mountain", "US/Pacific", "US/Hawaii"} |->
     CASE z = "US/Eastern" -> -5 [] z = "US/Central" -> -6
       [] z = "US/Mountain" -> -7 [] z = "US/Pacific" -> -8
       [] z = "US/Hawaii" -> -10]

TIMEZONES ==
  [z \in {"US/Eastern", "US/Central", "US/Mountain", "US/Pacific"} |->
     CASE z = "US/Eastern" -> -5 [] z = "US/Central" -> -6
       [] z = "US/Mountain" -> -7 [] z = "US/Pacific" -> -8]

None == <<>>

\* ------------------------------------------------- time.mktime / localtime
IsLeap(y) == (y % 4 = 0 /\ y % 100 # 0) \/ y % 400 = 0

LeapsBefore(y) == (y - 1) \div 4 - (y - 1) \div 100 + (y - 1) \div 400

DaysBeforeMonth(y, m) ==
  LET cum == <<0, 31, 59, 90, 120, 151, 181, 212, 243, 273, 304, 334, 365>>
  IN cum[m] + (IF m > 2 /\ IsLeap(y) THEN 1 ELSE 0)

DaysInMonth(y, m) == DaysBeforeMonth(y, m + 1) - DaysBeforeMonth(y, m)

DaysToYear(y) ==
  365 * (y - EPOCH_YEAR) + LeapsBefore(y) - LeapsBefore(EPOCH_YEAR)

\* time.mktime(tuple): seconds since the epoch; only fields 0..5 are used
mktime(t) ==
  (DaysToYear(t[1]) + DaysBeforeMonth(t[1], t[2]) + t[3] - 1) * 86400
    + t[4] * 3600 + t[5] * 60 + t[6]

\* time.localtime(secs) / time.gmtime(secs): no zone on the device, both are
\* the calendar breakdown of secs; weekday 0=Monday..6=Sunday
localtime(secs) ==
  LET days == secs \div 86400
      rem  == secs % 86400
      y0   == EPOCH_YEAR + days \div 366
      y    == IF DaysToYear(y0 + 1) <= days THEN y0 + 1 ELSE y0
      yd   == days - DaysToYear(y)
      m    == CHOOSE k \in 1..12 :
                DaysBeforeMonth(y, k) <= yd /\ yd < DaysBeforeMonth(y, k + 1)
      d    == yd - DaysBeforeMonth(y, m) + 1
      wd   == (days + 3) % 7
  IN <<y, m, d, rem \div 3600, (rem % 3600) \div 60, rem % 60, wd, yd + 1>>

gmtime(secs) == localtime(secs)

\* ------------------------------------------------------------------ is_dst
\* weekday of the first of month m of year, through mktime and localtime
first_wday(year, m) == localtime(mktime(<<year, m, 1, 0, 0, 0, 0, 0>>))[7]

\* variant: first-Sunday offset taken with Sunday as weekday 0
dst_start_day_sunday0(year) ==
  LET march1_wday == first_wday(year, 3)
  IN 8 + ((7 - march1_wday) % 7)

\* second Sunday in March as is_dst computes it
dst_start_day(year) ==
  LET march1_wday == first_wday(year, 3)
  IN IF march1_wday <= 6 THEN 14 - march1_wday ELSE 7 - (march1_wday - 7)

\* first Sunday in November as is_dst computes it
dst_end_day(year) ==
  LET nov1_wday == first_wday(year, 11)
  IN 1 + ((7 - nov1_wday) % 7)

\* variant: transition hour of the start day excluded
is_dst_start_gt(time_tuple) ==
  LET year  == time_tuple[1]
      month == time_tuple[2]
      day   == time_tuple[3]
      hour  == time_tuple[4]
  IN IF month < 3 \/ month > 11 THEN FALSE
     ELSE IF 3 < month /\ month < 11 THEN TRUE
     ELSE IF month = 3
          THEN IF day > dst_start_day(year) THEN TRUE
               ELSE IF day = dst_start_day(year) THEN hour > 2
               ELSE FALSE
     ELSE IF month = 11
          THEN IF day < dst_end_day(year) THEN TRUE
               ELSE IF day = dst_end_day(year) THEN hour < 2
               ELSE FALSE
     ELSE FALSE

\* variant: transition hour of the end day included
is_dst_end_le(time_tuple) ==
  LET year  == time_tuple[1]
      month == time_tuple[2]
      day   == time_tuple[3]
      hour  == time_tuple[4]
  IN IF month < 3 \/ month > 11 THEN FALSE
     ELSE IF 3 < month /\ month < 11 THEN TRUE
     ELSE IF month = 3
          THEN IF day > dst_start_day(year) THEN TRUE
               ELSE IF day = dst_start_day(year) THEN hour >= 2
               ELSE FALSE
     ELSE IF month = 11
          THEN IF day < dst_end_day(year) THEN TRUE
               ELSE IF day = dst_end_day(year) THEN hour <= 2
               ELSE FALSE
     ELSE FALSE

\* variant: summer range ends one month early
is_dst_oct(time_tuple) ==
  LET year  == time_tuple[1]
      month == time_tuple[2]
      day   == time_tuple[3]
      hour  == time_tuple[4]
  IN IF month < 3 \/ month > 11 THEN FALSE
     ELSE IF 3 < month /\ month < 10 THEN TRUE
     ELSE IF month = 3
          THEN IF day > dst_start_day(year) THEN TRUE
               ELSE IF day = dst_start_day(year) THEN hour >= 2
               ELSE FALSE
     ELSE IF month = 11
          THEN IF day < dst_end_day(year) THEN TRUE
               ELSE IF day = dst_end_day(year) THEN hour < 2
               ELSE FALSE
     ELSE FALSE

is_dst(time_tuple) ==
  LET year  == time_tuple[1]
      month == time_tuple[2]
      day   == time_tuple[3]
      hour  == time_tuple[4]
  IN IF month < 3 \/ month > 11 THEN FALSE
     ELSE IF 3 < month /\ month < 11 THEN TRUE
     ELSE IF month = 3
          THEN IF day > dst_start_day(year) THEN TRUE
               ELSE IF day = dst_start_day(year) THEN hour >= 2
               ELSE FALSE
     ELSE IF month = 11
          THEN IF day < dst_end_day(year) THEN TRUE
               ELSE IF day = dst_end_day(year) THEN hour < 2
               ELSE FALSE
     ELSE FALSE

\* ------------------------------------------------------------ utc_to_local
\* variant: is_dst is asked about the UTC tuple instead of the local one
utc_to_local_utcprobe(utc, offset) ==
  LET epoch       == mktime(utc)
      local_epoch_ == epoch + offset * 3600
      probe_      == localtime(local_epoch_)
  IN IF is_dst(utc) THEN localtime(local_epoch_ + 3600) ELSE probe_

\* variant: the DST hour is taken off instead of added
utc_to_local_minus(utc, offset) ==
  LET epoch       == mktime(utc)
      local_epoch_ == epoch + offset * 3600
      probe_      == localtime(local_epoch_)
  IN IF is_dst(probe_) THEN localtime(local_epoch_ - 3600) ELSE probe_

\* variant: the shifted time is asked again and the shift dropped if it is
\* no longer DST
utc_to_local_recheck(utc, offset) ==
  LET epoch       == mktime(utc)
      local_epoch_ == epoch + offset * 3600
      probe_      == localtime(local_epoch_)
      shifted     == localtime(local_epoch_ + 3600)
  IN IF is_dst(probe_) /\ is_dst(shifted) THEN shifted ELSE probe_

utc_to_local(utc, offset) ==
  LET epoch       == mktime(utc)
      local_epoch_ == epoch + offset * 3600
      probe_      == localtime(local_epoch_)
  IN IF is_dst(probe_) THEN localtime(local_epoch_ + 3600) ELSE probe_

\* ------------------------------------- independent calendar (cross-checks)
\* Zeller's congruence: 0=Saturday, 1=Sunday, ..., 6=Friday
Zeller(y, m, d) ==
  LET mm == IF m < 3 THEN m + 12 ELSE m
      yy == IF m < 3 THEN y - 1 ELSE y
      K  == yy % 100
      J  == yy \div 100
  IN (d + (13 * (mm + 1)) \div 5 + K + K \div 4 + J \div 4 + 5 * J) % 7

IsSunday(y, m, d) == Zeller(y, m, d) = 1

\* ------------------------------------------------------------------- state
VARIABLES
  pc,          \* position in set_local_time / get_ntp_time / is_dst
  tz_name,     \* argument of set_local_time
  tz_offset,   \* TIMEZONES[tz_name]
  retries,     \* loop counter of set_local_time
  utc_time,    \* last result of get_ntp_time (None or a time tuple)
  msg,         \* reply datagram as received by s.recv(48)
  sock,        \* "none" | "open" | "closed": the socket of the current attempt
  pending,     \* what the try statement does after its finally clause
  local_time,  \* result of utc_to_local
  probe,       \* tuple is_dst was evaluated on
  dst,         \* result of is_dst
  rtc,         \* machine.RTC() datetime tuple
  notices,     \* lines printed
  outcome,     \* "running" | "returned" | name of the exception raised
  ret,         \* value returned by set_local_time
  ntp_calls,   \* number of get_ntp_time invocations
  fails,       \* number of get_ntp_time invocations that returned None
  socks,       \* number of sockets created
  rtc_writes,  \* number of RTC().datetime(tm) calls
  resolved,    \* getaddrinfo succeeded in the current get_ntp_time call
  sent         \* epoch seconds the server put in its last reply

vars == <<pc, tz_name, tz_offset, retries, utc_time, msg, sock, pending,
          local_time, probe, dst, rtc, notices, outcome, ret, ntp_calls,
          fails, socks, rtc_writes, resolved, sent>>

\* ------------------------------------------------------------- environment
ZoneNames ==
  {"US/Eastern", "US/Central", "US/Mountain", "US/Pacific",
   "US/Hawaii", "Mars/Olympus", "us/eastern"}

\* lengths of the datagram the server may answer with
ReplyLens == {0, 40, 43, 44, 48}

\* instants the server may report (UTC)
NtpInstants ==
  { mktime(<<2024, 1, 15, 12, 0, 0, 0, 0>>),
    mktime(<<2024, 3, 10, 8, 0, 0, 0, 0>>),
    mktime(<<2024, 7, 4, 3, 30, 15, 0, 0>>),
    mktime(<<2025, 12, 31, 23, 59, 59, 0, 0>>) }

RTC_RESET == <<2000, 1, 1, 5, 0, 0, 0, 0>>

\* transmit timestamp (seconds since 1900) of instant t, as two 16-bit words
NtpWords(t) ==
  LET lo == (t % 65536) + NTP_DELTA_LO
  IN [hi |-> (t \div 65536 + NTP_DELTA_HI + lo \div 65536) % 65536,
      lo |-> lo % 65536]

Reply(len, t) == [len |-> len, xmt |-> NtpWords(t)]
NoMsg == [len |-> RECV_SIZE, xmt |-> [hi |-> 0, lo |-> 0]]

\* Len(msg[40:44])
SliceLen(m) ==
  LET hi == IF m.len < NTP_TIMESTAMP_END THEN m.len ELSE NTP_TIMESTAMP_END
  IN IF hi > NTP_TIMESTAMP_START THEN hi - NTP_TIMESTAMP_START ELSE 0

\* struct.unpack("!I", ...)[0] - NTP_DELTA, on 16-bit words
ntp_to_epoch(m) ==
  (m.xmt.hi - NTP_DELTA_HI) * 65536 + (m.xmt.lo - NTP_DELTA_LO)

Fresh ==
  /\ tz_offset = 0 /\ retries = 0 /\ utc_time = None /\ msg = NoMsg
  /\ sock = "none" /\ pending = "none" /\ local_time = None
  /\ probe = None /\ dst = FALSE /\ rtc = RTC_RESET /\ notices = <<>>
  /\ outcome = "running" /\ ret = None /\ ntp_calls = 0 /\ fails = 0
  /\ socks = 0 /\ rtc_writes = 0 /\ resolved = FALSE /\ sent = 0

Init ==
  /\ pc = "set_local_time"
  /\ tz_name \in ZoneNames
  /\ Fresh

Raise(exc) == pc' = "done" /\ outcome' = exc

\* ---------------------------------------------------------- set_local_time
\* lines 106-110
Validate ==
  /\ pc = "set_local_time"
  /\ IF tz_name \notin DOMAIN TIMEZONES
     THEN /\ Raise("UnsupportedZone")
          /\ UNCHANGED <<tz_offset, retries>>
     ELSE /\ tz_offset' = TIMEZONES[tz_name]
          /\ retries' = 0
          /\ pc' = "while"
          /\ UNCHANGED outcome
  /\ UNCHANGED <<tz_name, utc_time, msg, sock, pending, local_time, probe,
                 dst, rtc, notices, ret, ntp_calls, fails, socks,
                 rtc_writes, resolved, sent>>

\* variant: loop test admits one more attempt
WhileTest_le ==
  /\ pc = "while"
  /\ IF retries <= MaxRetries
     THEN /\ pc' = "getaddrinfo"
          /\ ntp_calls' = ntp_calls + 1
          /\ resolved' = FALSE
          /\ sock' = "none"
     ELSE /\ pc' = "check"
          /\ UNCHANGED <<ntp_calls, resolved, sock>>
  /\ UNCHANGED <<tz_name, tz_offset, retries, utc_time, msg, pending,
                 local_time, probe, dst, rtc, notices, outcome, ret, fails,
                 socks, rtc_writes, sent>>

\* lines 111-112: loop test, and the call of get_ntp_time when it holds
WhileTest ==
  /\ pc = "while"
  /\ IF retries < MaxRetries
     THEN /\ pc' = "getaddrinfo"
          /\ ntp_calls' = ntp_calls + 1
          /\ resolved' = FALSE
          /\ sock' = "none"
     ELSE /\ pc' = "check"
          /\ UNCHANGED <<ntp_calls, resolved, sock>>
  /\ UNCHANGED <<tz_name, tz_offset, retries, utc_time, msg, pending,
                 local_time, probe, dst, rtc, notices, outcome, ret, fails,
                 socks, rtc_writes, sent>>

\* variant: a failed resolution is reported as None, like a timeout
GetAddrInfo_none ==
  /\ pc = "getaddrinfo"
  /\ \E ok \in BOOLEAN :
       IF ok
       THEN /\ pc' = "socket" /\ resolved' = TRUE
            /\ UNCHANGED <<utc_time, fails>>
       ELSE /\ pc' = "got" /\ utc_time' = None /\ fails' = fails + 1
            /\ UNCHANGED resolved
  /\ UNCHANGED <<tz_name, tz_offset, retries, msg, sock, pending, outcome,
                 local_time, probe, dst, rtc, notices, ret, ntp_calls,
                 socks, rtc_writes, sent>>

\* lines 71-74 of get_ntp_time
GetAddrInfo ==
  /\ pc = "getaddrinfo"
  /\ \E ok \in BOOLEAN :
       IF ok
       THEN pc' = "socket" /\ resolved' = TRUE /\ UNCHANGED outcome
       ELSE Raise("NetworkUnavailable") /\ UNCHANGED resolved
  /\ UNCHANGED <<tz_name, tz_offset, retries, utc_time, msg, sock, pending,
                 local_time, probe, dst, rtc, notices, ret, ntp_calls, fails,
                 socks, rtc_writes, sent>>

\* lines 75-77
SocketCreate ==
  /\ pc = "socket"
  /\ sock' = "open"
  /\ socks' = socks + 1
  /\ pc' = "sendrecv"
  /\ UNCHANGED <<tz_name, tz_offset, retries, utc_time, msg, pending,
                 local_time, probe, dst, rtc, notices, outcome, ret,
                 ntp_calls, fails, rtc_writes, resolved, sent>>

\* lines 78-82: sendto and recv; a timeout or socket error takes the except
\* clause (return None), a datagram of any length is a normal completion
SendRecv ==
  /\ pc = "sendrecv"
  /\ \/ /\ pending' = "return_none"
        /\ UNCHANGED <<msg, sent>>
     \/ \E len \in ReplyLens, t \in NtpInstants :
          /\ msg' = Reply(len, t)
          /\ sent' = t
          /\ pending' = "fallthrough"
  /\ pc' = "finally"
  /\ UNCHANGED <<tz_name, tz_offset, retries, utc_time, sock, local_time,
                 probe, dst, rtc, notices, outcome, ret, ntp_calls, fails,
                 socks, rtc_writes, resolved>>

\* variant: the socket is closed in the except clause only
Finally_except ==
  /\ pc = "finally"
  /\ IF pending = "return_none"
     THEN /\ sock' = "closed"
          /\ utc_time' = None
          /\ fails' = fails + 1
          /\ pc' = "got"
     ELSE /\ pc' = "unpack"
          /\ UNCHANGED <<sock, utc_time, fails>>
  /\ pending' = "none"
  /\ UNCHANGED <<tz_name, tz_offset, retries, msg, local_time, probe, dst,
                 rtc, notices, outcome, ret, ntp_calls, socks, rtc_writes,
                 resolved, sent>>

\* lines 83-84, then the pending return None of line 82 or on to line 86
Finally ==
  /\ pc = "finally"
  /\ sock' = "closed"
  /\ IF pending = "return_none"
     THEN /\ utc_time' = None
          /\ fails' = fails + 1
          /\ pc' = "got"
     ELSE /\ pc' = "unpack"
          /\ UNCHANGED <<utc_time, fails>>
  /\ pending' = "none"
  /\ UNCHANGED <<tz_name, tz_offset, retries, msg, local_time, probe, dst,
                 rtc, notices, outcome, ret, ntp_calls, socks, rtc_writes,
                 resolved, sent>>

\* lines 86-88: struct.unpack raises unless the slice has exactly 4 bytes
Unpack ==
  /\ pc = "unpack"
  /\ IF SliceLen(msg) # 4
     THEN Raise("UnpackError") /\ UNCHANGED utc_time
     ELSE /\ utc_time' = gmtime(ntp_to_epoch(msg))
          /\ pc' = "got"
          /\ UNCHANGED outcome
  /\ UNCHANGED <<tz_name, tz_offset, retries, msg, sock, pending, local_time,
                 probe, dst, rtc, notices, ret, ntp_calls, fails, socks,
                 rtc_writes, resolved, sent>>

\* variant: the success branch counts a retry and loops instead of breaking
GotResult_nobreak ==
  /\ pc = "got"
  /\ IF utc_time = None
     THEN /\ notices' = Append(notices, "Failed to get NTP time. Retrying...")
          /\ retries' = retries + 1
          /\ pc' = "while"
     ELSE /\ notices' = IF retries > 0
                        THEN Append(notices,
                               "Successfully retrieved NTP time on retry.")
                        ELSE notices
          /\ retries' = retries + 1
          /\ pc' = "while"
  /\ UNCHANGED <<tz_name, tz_offset, utc_time, msg, sock, pending,
                 local_time, probe, dst, rtc, outcome, ret, ntp_calls,
                 fails, socks, rtc_writes, resolved, sent>>

\* variant: the recovery notice is printed on every success
GotResult_always ==
  /\ pc = "got"
  /\ IF utc_time = None
     THEN /\ notices' = Append(notices, "Failed to get NTP time. Retrying...")
          /\ retries' = retries + 1
          /\ pc' = "while"
     ELSE /\ notices' = IF retries >= 0
                        THEN Append(notices,
                               "Successfully retrieved NTP time on retry.")
                        ELSE notices
          /\ pc' = "check"
          /\ UNCHANGED retries
  /\ UNCHANGED <<tz_name, tz_offset, utc_time, msg, sock, pending,
                 local_time, probe, dst, rtc, outcome, ret, ntp_calls,
                 fails, socks, rtc_writes, resolved, sent>>

\* variant: the clock is set to the UTC time as soon as one is obtained
GotResult_setutc ==
  /\ pc = "got"
  /\ IF utc_time = None
     THEN /\ notices' = Append(notices, "Failed to get NTP time. Retrying...")
          /\ retries' = retries + 1
          /\ pc' = "while"
          /\ UNCHANGED <<rtc, rtc_writes>>
     ELSE /\ notices' = IF retries > 0
                        THEN Append(notices,
                               "Successfully retrieved NTP time on retry.")
                        ELSE notices
          /\ rtc' = SubSeq(utc_time, 1, 3) \o <<0>> \o SubSeq(utc_time, 4, 6)
                      \o <<0>>
          /\ rtc_writes' = rtc_writes + 1
          /\ pc' = "check"
          /\ UNCHANGED retries
  /\ UNCHANGED <<tz_name, tz_offset, utc_time, msg, sock, pending,
                 local_time, probe, dst, outcome, ret, ntp_calls,
                 fails, socks, resolved, sent>>

\* lines 113-119
GotResult ==
  /\ pc = "got"
  /\ IF utc_time = None
     THEN /\ notices' = Append(notices, "Failed to get NTP time. Retrying...")
          /\ retries' = retries + 1
          /\ pc' = "while"
     ELSE /\ notices' = IF retries > 0
                        THEN Append(notices,
                               "Successfully retrieved NTP time on retry.")
                        ELSE notices
          /\ pc' = "check"
          /\ UNCHANGED retries
  /\ UNCHANGED <<tz_name, tz_offset, utc_time, msg, sock, pending,
                 local_time, probe, dst, rtc, outcome, ret, ntp_calls,
                 fails, socks, rtc_writes, resolved, sent>>

\* lines 121-122
CheckNone ==
  /\ pc = "check"
  /\ IF utc_time = None
     THEN Raise("TimeSyncFailed")
     ELSE pc' = "utc_to_local" /\ UNCHANGED outcome
  /\ UNCHANGED <<tz_name, tz_offset, retries, utc_time, msg, sock, pending,
                 local_time, probe, dst, rtc, notices, ret, ntp_calls, fails,
                 socks, rtc_writes, resolved, sent>>

\* line 124 (utc_to_local, lines 90-99)
UtcToLocal ==
  /\ pc = "utc_to_local"
  /\ probe' = localtime(mktime(utc_time) + tz_offset * 3600)
  /\ dst' = is_dst(probe')
  /\ local_time' = utc_to_local(utc_time, tz_offset)
  /\ pc' = "rtc"
  /\ UNCHANGED <<tz_name, tz_offset, retries, utc_time, msg, sock, pending,
                 rtc, notices, outcome, ret, ntp_calls, fails, socks,
                 rtc_writes, resolved, sent>>

\* variant: the weekday of the local time is passed on to the clock
WriteRTC_wday ==
  /\ pc = "rtc"
  /\ rtc' = SubSeq(local_time, 1, 3) \o <<local_time[7]>>
              \o SubSeq(local_time, 4, 6) \o <<0>>
  /\ rtc_writes' = rtc_writes + 1
  /\ pc' = "return"
  /\ UNCHANGED <<tz_name, tz_offset, retries, utc_time, msg, sock, pending,
                 local_time, probe, dst, notices, outcome, ret, ntp_calls,
                 fails, socks, resolved, sent>>

\* lines 127-128
WriteRTC ==
  /\ pc = "rtc"
  /\ rtc' = SubSeq(local_time, 1, 3) \o <<0>> \o SubSeq(local_time, 4, 6)
              \o <<0>>
  /\ rtc_writes' = rtc_writes + 1
  /\ pc' = "return"
  /\ UNCHANGED <<tz_name, tz_offset, retries, utc_time, msg, sock, pending,
                 local_time, probe, dst, notices, outcome, ret, ntp_calls,
                 fails, socks, resolved, sent>>

\* line 129
Return ==
  /\ pc = "return"
  /\ ret' = local_time
  /\ outcome' = "returned"
  /\ pc' = "done"
  /\ UNCHANGED <<tz_name, tz_offset, retries, utc_time, msg, sock, pending,
                 local_time, probe, dst, rtc, notices, ntp_calls, fails,
                 socks, rtc_writes, resolved, sent>>

Next ==
  \/ Validate
  \/ WhileTest
  \/ GetAddrInfo
  \/ SocketCreate
  \/ SendRecv
  \/ Finally
  \/ Unpack
  \/ GotResult
  \/ CheckNone
  \/ UtcToLocal
  \/ WriteRTC
  \/ Return

Spec == Init /\ [][Next]_vars

\* --------------------------------------------- is_dst over all timestamps
Years == MinYear..MaxYear

InitDst ==
  /\ pc = "is_dst"
  /\ tz_name = "US/Eastern"
  /\ tz_offset = 0 /\ retries = 0 /\ utc_time = None /\ msg = NoMsg
  /\ sock = "none" /\ pending = "none" /\ local_time = None
  /\ \E y \in Years, m \in 1..12, h \in 0..23 :
       \E d \in 1..DaysInMonth(y, m) :
         probe = localtime(mktime(<<y, m, d, h, 0, 0, 0, 0>>))
  /\ dst = FALSE /\ rtc = RTC_RESET /\ notices = <<>>
  /\ outcome = "running" /\ ret = None /\ ntp_calls = 0 /\ fails = 0
  /\ socks = 0 /\ rtc_writes = 0 /\ resolved = FALSE /\ sent = 0

\* lines 32-67 applied to the tuple
IsDst ==
  /\ pc = "is_dst"
  /\ dst' = is_dst(probe)
  /\ pc' = "is_dst_done"
  /\ UNCHANGED <<tz_name, tz_offset, retries, utc_time, msg, sock, pending,
                 local_time, probe, rtc, notices, outcome, ret, ntp_calls,
                 fails, socks, rtc_writes, resolved, sent>>

NextDst == IsDst

SpecDst == InitDst /\ [][NextDst]_vars

\* ------------------------------------- utc_to_local over all UTC instants
\* every day around the two transitions, the ends of the other months
ConvDays(y, m) ==
  IF m = 3 THEN {1, 31} \cup 7..15
  ELSE IF m = 11 THEN {30} \cup 1..9
  ELSE {1, DaysInMonth(y, m)}

ConvMinSec == {<<0, 0>>, <<59, 59>>}

InitConv ==
  /\ pc = "utc_to_local"
  /\ tz_name \in DOMAIN TIMEZONES
  /\ tz_offset = TIMEZONES[tz_name]
  /\ retries = 0 /\ msg = NoMsg
  /\ sock = "none" /\ pending = "none" /\ local_time = None
  /\ \E y \in Years, m \in 1..12, h \in 0..23, ms \in ConvMinSec :
       \E d \in ConvDays(y, m) :
         /\ sent = mktime(<<y, m, d, h, ms[1], ms[2], 0, 0>>)
         /\ utc_time = gmtime(sent)
  /\ probe = None
  /\ dst = FALSE /\ rtc = RTC_RESET /\ notices = <<>>
  /\ outcome = "running" /\ ret = None /\ ntp_calls = 0 /\ fails = 0
  /\ socks = 0 /\ rtc_writes = 0 /\ resolved = FALSE

NextConv == UtcToLocal

SpecConv == InitConv /\ [][NextConv]_vars

\* ================================================================== claims
SupportedZones == {"US/Eastern", "US/Central", "US/Mountain", "US/Pacific"}

ZoneHours(z) ==
  CASE z = "US/Eastern" -> -5 [] z = "US/Central" -> -6
    [] z = "US/Mountain" -> -7 [] z = "US/Pacific" -> -8

SecondSundayMarch(y) == CHOOSE d \in 8..14 : IsSunday(y, 3, d)
FirstSundayNovember(y) == CHOOSE d \in 1..7 : IsSunday(y, 11, d)

\* US rule at UTC instant t for a zone with standard offset off: DST runs from
\* 02:00 on the standard clock of the second Sunday in March up to 02:00 on
\* the daylight clock (01:00 standard) of the first Sunday in November
UsDst(t, off) ==
  LET std == t + off * 3600
      y   == localtime(std)[1]
      start == mktime(<<y, 3, SecondSundayMarch(y), 2, 0, 0, 0, 0>>)
      end   == mktime(<<y, 11, FirstSundayNovember(y), 2, 0, 0, 0, 0>>) - 3600
  IN start <= std /\ std < end

\* C1: for every supported zone and UTC instant, utc_to_local returns
\* UTC + offset outside US DST and UTC + offset + 1 hour within it.
C1_LocalIsOffsetPlusUsDst ==
  pc = "rtc" =>
    local_time = localtime(sent + ZoneHours(tz_name) * 3600
                   + (IF UsDst(sent, ZoneHours(tz_name)) THEN 3600 ELSE 0))

\* C2: the DST end day is_dst computes is the first Sunday in November: it
\* lies in 1..7 and is a Sunday by Zeller's congruence.
C2_EndDayIsFirstSunday ==
  pc = "is_dst_done" =>
    /\ dst_end_day(probe[1]) \in 1..7
    /\ IsSunday(probe[1], 11, dst_end_day(probe[1]))

\* C3: the DST start day is_dst computes is the second Sunday in March: it
\* lies in 8..14 and is a Sunday by Zeller's congruence.
C3_StartDayIsSecondSunday ==
  pc = "is_dst_done" =>
    /\ dst_start_day(probe[1]) \in 8..14
    /\ IsSunday(probe[1], 3, dst_start_day(probe[1]))

\* a year whose March 1 is itself a Sunday: the start day is March 8
C3_Witness ==
  /\ pc = "is_dst_done"
  /\ first_wday(probe[1], 3) = 6
  /\ dst_start_day(probe[1]) = 8
  /\ probe[2] = 3 /\ probe[3] = 8

\* C4: in March is_dst is true iff day > S, or day = S and hour >= 2.
C4_MarchRule ==
  (pc = "is_dst_done" /\ probe[2] = 3) =>
    (dst <=> \/ probe[3] > dst_start_day(probe[1])
             \/ (probe[3] = dst_start_day(probe[1]) /\ probe[4] >= 2))

C4_Witness ==
  /\ pc = "is_dst_done"
  /\ probe[2] = 3 /\ probe[3] = dst_start_day(probe[1]) /\ probe[4] = 2
  /\ dst

\* C5: in November is_dst is true iff day < E, or day = E and hour < 2.
C5_NovemberRule ==
  (pc = "is_dst_done" /\ probe[2] = 11) =>
    (dst <=> \/ probe[3] < dst_end_day(probe[1])
             \/ (probe[3] = dst_end_day(probe[1]) /\ probe[4] < 2))

C5_Witness ==
  /\ pc = "is_dst_done"
  /\ probe[2] = 11 /\ probe[3] = dst_end_day(probe[1]) /\ probe[4] = 2
  /\ ~dst

\* C6: is_dst is true in April..October and false in January, February and
\* December, whatever the day and hour.
C6_MonthRule ==
  pc = "is_dst_done" =>
    /\ (3 < probe[2] /\ probe[2] < 11) => dst
    /\ (probe[2] < 3 \/ probe[2] > 11) => ~dst

C6_Witness ==
  /\ pc = "is_dst_done"
  /\ probe[2] = 10 /\ probe[3] = 31 /\ probe[4] = 23
  /\ dst

\* C7: with N < 10 None results before the first timestamp, the time source
\* is invoked N+1 times and never after its first success, the result is the
\* local conversion of that timestamp and the clock is written once.
C7_StopOnFirstSuccess ==
  /\ ntp_calls <= fails + 1
  /\ (pc = "done" /\ utc_time # None) => outcome = "returned"
  /\ outcome = "returned" =>
       /\ fails < 10
       /\ ntp_calls = fails + 1
       /\ ret = utc_to_local(gmtime(sent), ZoneHours(tz_name))
       /\ rtc_writes = 1

C7_Witness ==
  /\ outcome = "returned"
  /\ fails = 9
  /\ ntp_calls = 10

\* C8: ten consecutive None results raise TimeSyncFailed after exactly ten
\* invocations, never an eleventh, and the clock is not written.
C8_ExhaustionRaises ==
  /\ ntp_calls <= 10
  /\ (pc = "done" /\ fails = 10) => outcome = "TimeSyncFailed"
  /\ outcome = "TimeSyncFailed" =>
       /\ ntp_calls = 10 /\ fails = 10
       /\ rtc_writes = 0 /\ rtc = RTC_RESET

C8_Witness ==
  /\ pc = "done"
  /\ outcome = "TimeSyncFailed"
  /\ fails = 10

\* C9: an unlisted zone name raises UnsupportedZone before any time-source
\* call: no network call, no notice, clock unchanged.
C9_UnsupportedZoneFailsFast ==
  /\ (tz_name \notin SupportedZones /\ pc # "set_local_time") =>
       /\ pc = "done" /\ outcome = "UnsupportedZone"
       /\ ntp_calls = 0 /\ socks = 0 /\ notices = <<>>
       /\ rtc_writes = 0 /\ rtc = RTC_RESET
  /\ outcome = "UnsupportedZone" => tz_name \notin SupportedZones

C9_Witness ==
  /\ pc = "done"
  /\ outcome = "UnsupportedZone"
  /\ tz_name = "US/Hawaii"

\* C10: once address resolution has succeeded, get_ntp_time never raises.
C10_NoRaiseAfterResolution ==
  resolved => outcome \notin {"NetworkUnavailable", "UnpackError"}

\* C11: a failed address resolution on attempt k raises NetworkUnavailable
\* out of set_local_time at once: no socket for that attempt, no further
\* attempt, clock not written; every attempt that goes on has resolved.
C11_ResolutionFailureAborts ==
  /\ pc \in {"socket", "sendrecv", "finally", "unpack", "got"} => resolved
  /\ outcome = "NetworkUnavailable" =>
       /\ pc = "done"
       /\ ~resolved
       /\ ntp_calls \in 1..10
       /\ fails = ntp_calls - 1
       /\ socks = ntp_calls - 1
       /\ sock = "none"
       /\ rtc_writes = 0 /\ rtc = RTC_RESET
       /\ ret = None

C11_Witness ==
  /\ pc = "done"
  /\ outcome = "NetworkUnavailable"
  /\ ntp_calls = 4 /\ socks = 3

\* C12: the clock is written only on full success: never when the call ends
\* in an error, exactly once when it returns, after the conversion and with
\* nothing but the return following it.
C12_ClockWrittenOnlyOnSuccess ==
  /\ rtc_writes <= 1
  /\ rtc_writes = 0 => rtc = RTC_RESET
  /\ rtc_writes = 1 =>
       /\ pc \in {"return", "done"}
       /\ outcome \in {"running", "returned"}
       /\ local_time = utc_to_local(utc_time, ZoneHours(tz_name))
  /\ outcome = "returned" => rtc_writes = 1
  /\ (pc = "done" /\ outcome # "returned") => rtc_writes = 0

C12_Witness ==
  /\ pc = "return"
  /\ outcome = "running"
  /\ rtc_writes = 1
  /\ rtc # RTC_RESET

\* C13: every call ends after at most 10 time-source invocations in one of
\* four outcomes: a returned local timestamp, UnsupportedZone,
\* NetworkUnavailable or TimeSyncFailed; no other error reaches the caller.
C13_FourOutcomes ==
  /\ ntp_calls <= 10
  /\ pc = "done" =>
       outcome \in {"returned", "UnsupportedZone", "NetworkUnavailable",
                    "TimeSyncFailed"}

\* C14: every socket created is closed before get_ntp_time returns or
\* raises; each attempt has its own socket and none stays open across
\* attempts.
C14_SocketScoped ==
  /\ sock = "open" => pc \in {"sendrecv", "finally"}
  /\ pc \in {"unpack", "got"} => sock = "closed"
  /\ pc \in {"sendrecv", "finally"} => (sock = "open" /\ socks = ntp_calls)
  /\ socks <= ntp_calls
  /\ (pc = "done" /\ socks > 0 /\ resolved) => sock = "closed"

\* an exception raised after the socket was created, on the third attempt
C14_Witness ==
  /\ pc = "done"
  /\ outcome = "UnpackError"
  /\ socks = 3
  /\ sock = "closed"

RetryNotice == "Failed to get NTP time. Retrying..."
RecoveryNotice == "Successfully retrieved NTP time on retry."

\* C15: N failures then a success print N transient-failure notices, each
\* before the next attempt, then the recovery notice once if N >= 1 and not
\* at all if N = 0; ten failures print ten transient-failure notices only.
C15_Notices ==
  /\ pc \in {"getaddrinfo", "socket", "sendrecv", "finally", "unpack"} =>
       notices = [i \in 1..(ntp_calls - 1) |-> RetryNotice]
  /\ outcome = "returned" =>
       notices = [i \in 1..fails |-> RetryNotice]
                   \o (IF fails >= 1 THEN <<RecoveryNotice>> ELSE <<>>)
  /\ outcome = "TimeSyncFailed" =>
       notices = [i \in 1..10 |-> RetryNotice]

C15_Witness ==
  /\ outcome = "returned"
  /\ fails = 2
  /\ notices = <<RetryNotice, RetryNotice, RecoveryNotice>>

\* C16: on success the clock receives (year, month, day, 0, hour, minute,
\* second, 0) with the six fields of the local timestamp that is returned.
C16_ClockTuple ==
  outcome = "returned" =>
    /\ Len(rtc) = 8
    /\ rtc[1] = ret[1] /\ rtc[2] = ret[2] /\ rtc[3] = ret[3]
    /\ rtc[4] = 0
    /\ rtc[5] = ret[4] /\ rtc[6] = ret[5] /\ rtc[7] = ret[6]
    /\ rtc[8] = 0

C16_Witness ==
  /\ outcome = "returned"
  /\ ret[7] # 0
  /\ rtc = <<2024, 7, 3, 0, 23, 30, 15, 0>>

\* pre-DST local timestamp of the instant the server sent
StdLocal == localtime(sent + ZoneHours(tz_name) * 3600)

\* C17: utc_to_local asks is_dst once, about the pre-DST local timestamp,
\* and its result lies exactly offset hours, or offset hours plus one hour,
\* from the UTC instant, the extra hour being there iff is_dst said so.
C17_OneShot ==
  pc = "rtc" =>
    /\ probe = StdLocal
    /\ dst = is_dst(StdLocal)
    /\ mktime(local_time) - sent \in
         {ZoneHours(tz_name) * 3600, ZoneHours(tz_name) * 3600 + 3600}
    /\ (mktime(local_time) - sent = ZoneHours(tz_name) * 3600 + 3600) <=> dst
    /\ local_time = localtime(mktime(local_time))

\* the UTC tuple is past 02:00 on the start day (DST by itself) while the
\* local one is still on the evening before (not DST)
C17_Witness ==
  /\ pc = "rtc"
  /\ utc_time[2] = 3 /\ utc_time[3] = dst_start_day(utc_time[1])
  /\ utc_time[4] = 2
  /\ ~dst
  /\ probe[3] = utc_time[3] - 1
  /\ local_time = probe

\* C18: on the DST start day S a standard local time at or after 02:00:00
\* converts to itself plus one hour and an earlier one to itself, no result
\* has hour 2 on March S, and UTC 2024-03-10 08:00:00 gives US/Eastern
\* 2024-03-10 04:00:00.
C18_StartDay ==
  pc = "rtc" =>
    /\ (StdLocal[2] = 3 /\ StdLocal[3] = SecondSundayMarch(StdLocal[1])) =>
         IF StdLocal[4] >= 2
         THEN local_time = localtime(sent + ZoneHours(tz_name) * 3600 + 3600)
         ELSE local_time = StdLocal
    /\ ~(/\ local_time[2] = 3
         /\ local_time[3] = SecondSundayMarch(local_time[1])
         /\ local_time[4] = 2)
    /\ (/\ SubSeq(utc_time, 1, 6) = <<2024, 3, 10, 8, 0, 0>>
        /\ tz_name = "US/Eastern")
         => SubSeq(local_time, 1, 6) = <<2024, 3, 10, 4, 0, 0>>

C18_Witness ==
  /\ pc = "rtc"
  /\ tz_name = "US/Eastern"
  /\ SubSeq(utc_time, 1, 6) = <<2024, 3, 10, 8, 0, 0>>
  /\ SubSeq(local_time, 1, 6) = <<2024, 3, 10, 4, 0, 0>>

\* C19 as stated: is_dst of the result of utc_to_local equals is_dst of the
\* pre-DST probe, for every instant and zone.
C19_SelfConsistent ==
  pc = "rtc" => (is_dst(local_time) <=> is_dst(StdLocal))

\* C19 as amended: the two agree except when the probe is in hour 1 of the
\* November end day is_dst computes; there the probe is DST and the result,
\* in hour 2 of that day, is not.
C19_ConsistentButEndHour ==
  pc = "rtc" =>
    /\ (is_dst(local_time) <=> is_dst(StdLocal)) <=>
         ~(/\ StdLocal[2] = 11
           /\ StdLocal[3] = dst_end_day(StdLocal[1])
           /\ StdLocal[4] = 1)
    /\ (/\ StdLocal[2] = 11
        /\ StdLocal[3] = dst_end_day(StdLocal[1])
        /\ StdLocal[4] = 1) =>
         /\ is_dst(StdLocal) /\ ~is_dst(local_time)
         /\ local_time[3] = StdLocal[3] /\ local_time[4] = 2

C19_Witness ==
  /\ pc = "rtc"
  /\ probe[2] = 11 /\ probe[3] = dst_end_day(probe[1]) /\ probe[4] = 1
  /\ probe[5] = 59 /\ probe[6] = 59
  /\ dst
  /\ ~is_dst(local_time)

====
